---- MODULE Spec2Model ----
(***************************************************************************)
(* Computation-graph nodes of hw7-backprop/code/node_bz.ipynb.             *)
(*                                                                         *)
(* A node object has the attributes out, d_out (and a_minus_b for the      *)
(* squared-distance node) and the methods forward, backward and            *)
(* get_predecessors.  Values are numpy arrays of dimension 0 or 1 with     *)
(* integer entries; numpy's broadcasting and its errors are modelled.      *)
(***************************************************************************)
EXTENDS Integers, Sequences, FiniteSets, TLC

VARIABLES
    nodes,      \* id -> [cls, args, l2_reg]: the objects as constructed
    out,        \* id -> value of attribute out
    d_out,      \* id -> value of attribute d_out
    a_minus_b,  \* id -> value of attribute a_minus_b
    last,       \* the last call made: [op, node, exc, ret, summands]
    drv         \* bookkeeping of the caller that drives the calls

vars == <<nodes, out, d_out, a_minus_b, last, drv>>

----------------------------------------------------------------------------
(* Bounds *)

MaxLen == 2       \* longest vector a leaf holds in a well-shaped graph
MaxShapeLen == 3  \* longest vector a leaf holds where shapes may disagree
MaxVal == 2       \* leaf entries range over 1 .. MaxVal
MaxReg == 2       \* l2_reg ranges over 0 .. MaxReg
MaxCycles == 2    \* forward/backward cycles a caller runs
MaxCalls == 4     \* calls made by a caller that follows no order

----------------------------------------------------------------------------
(* numpy values: dim 0 is a 0-dimensional array, dim 1 a vector; v holds   *)
(* the entries.  None, the exceptions and a missing attribute are encoded  *)
(* with negative dim.                                                      *)

None == [dim |-> -1, v |-> <<>>]
TypeError == [dim |-> -2, v |-> <<>>]
ValueError == [dim |-> -3, v |-> <<>>]
AttributeError == [dim |-> -4, v |-> <<>>]
\* the object has no such attribute
NoAttr == [dim |-> -5, v |-> <<>>]

Scalar(x) == [dim |-> 0, v |-> <<x>>]
Vec(s) == [dim |-> 1, v |-> s]

IsArr(t) == t.dim >= 0
IsErr(t) == t.dim \in {-2, -3, -4}

\* reading an attribute: o.out, o.d_out
Attr(t) == IF t = NoAttr THEN AttributeError ELSE t

Max(a, b) == IF a >= b THEN a ELSE b

Add == "+"
Sub == "-"
Mul == "*"

\* x op y on entries
Arith(op, x, y) ==
    CASE op = "+" -> x + y
      [] op = "-" -> x - y
      [] op = "*" -> x * y

RECURSIVE SeqSum(_)
SeqSum(s) == IF s = <<>> THEN 0 ELSE Head(s) + SeqSum(Tail(s))

\* a elementwise-op b with numpy broadcasting between 0-d and 1-d arrays
EW(a, b, op) ==
    IF IsErr(a) THEN a
    ELSE IF IsErr(b) THEN b
    ELSE IF ~IsArr(a) \/ ~IsArr(b) THEN TypeError
    ELSE LET la == Len(a.v)
             lb == Len(b.v)
         IN  IF la # lb /\ la # 1 /\ lb # 1 THEN ValueError
             ELSE [dim |-> Max(a.dim, b.dim),
                   v |-> [i \in 1..Max(la, lb) |->
                            Arith(op, a.v[IF la = 1 THEN 1 ELSE i],
                                      b.v[IF lb = 1 THEN 1 ELSE i])]]

\* -a
Neg(a) == EW(Scalar(0), a, Sub)

\* a ** 2
Square(a) == EW(a, a, Mul)

\* np.sum(a)
NpSum(a) ==
    IF IsErr(a) THEN a
    ELSE IF ~IsArr(a) THEN TypeError
    ELSE Scalar(SeqSum(a.v))

\* np.dot(a, b)
NpDot(a, b) ==
    IF IsErr(a) THEN a
    ELSE IF IsErr(b) THEN b
    ELSE IF ~IsArr(a) \/ ~IsArr(b) THEN TypeError
    ELSE IF a.dim = 0 \/ b.dim = 0 THEN EW(a, b, Mul)
    ELSE IF Len(a.v) # Len(b.v) THEN ValueError
    ELSE Scalar(SeqSum([i \in 1..Len(a.v) |-> a.v[i] * b.v[i]]))

\* np.zeros(a.shape)
NpZeros(a) ==
    IF IsErr(a) THEN a
    ELSE IF ~IsArr(a) THEN AttributeError
    ELSE [dim |-> a.dim, v |-> [i \in 1..Len(a.v) |-> 0]]

\* variant of IAdd: t = s, the summand overwrites what was accumulated
IAdd_overwrite(t, s) ==
    IF IsErr(s) THEN s
    ELSE IF ~IsArr(t) \/ ~IsArr(s) THEN TypeError
    ELSE IF s.dim > t.dim \/ (Len(s.v) # Len(t.v) /\ Len(s.v) # 1) THEN ValueError
    ELSE EW(NpZeros(t), s, Add)

\* t += s, in place: s must broadcast to the shape of t
IAdd(t, s) ==
    IF IsErr(s) THEN s
    ELSE IF ~IsArr(t) \/ ~IsArr(s) THEN TypeError
    ELSE IF s.dim > t.dim \/ (Len(s.v) # Len(t.v) /\ Len(s.v) # 1) THEN ValueError
    ELSE EW(t, s, Add)

----------------------------------------------------------------------------
(* The objects.  nodes[n] = [cls, args, l2_reg]: the class of object n,    *)
(* the node arguments its constructor stored (x, w, b / a, b / w), and the *)
(* scalar l2_reg its constructor stored.                                   *)

Ids == DOMAIN nodes

Heap == [out |-> out, d_out |-> d_out, a_minus_b |-> a_minus_b]

\* how a call ends: by returning ret, or by raising exc
Returned(s, r, sm) == [heap |-> s, exc |-> None, ret |-> r, preds |-> <<>>, summands |-> sm]
Raised(s, e) == [heap |-> s, exc |-> e, ret |-> None, preds |-> <<>>, summands |-> <<>>]

\* o.d_out += sm: the attribute is read, then added to in place
AttrIAdd(t, sm) == IF IsErr(t) THEN t ELSE IAdd(t, sm)

\* tg[1].d_out += sm[1]; tg[2].d_out += sm[2]; ... one statement after the other
RECURSIVE IAddSeq(_, _, _)
IAddSeq(s, tg, sm) ==
    IF tg = <<>> THEN [heap |-> s, exc |-> None]
    ELSE LET r == AttrIAdd(Attr(s.d_out[Head(tg)]), Head(sm))
         IN  IF IsErr(r) THEN [heap |-> s, exc |-> r]
             ELSE IAddSeq([s EXCEPT !.d_out[Head(tg)] = r], Tail(tg), Tail(sm))

\* the first exception raised while the summands are computed, in order
RECURSIVE FirstErr(_)
FirstErr(sm) ==
    IF sm = <<>> THEN None
    ELSE IF IsErr(Head(sm)) THEN Head(sm)
    ELSE FirstErr(Tail(sm))

\* the body shared by the backward methods: compute the summands sm, add
\* them to the d_out of the inputs tg, return self.d_out (retOwn) or nothing
BackwardBody(s, tg, sm, retOwn, n) ==
    IF IsErr(FirstErr(sm)) THEN Raised(s, FirstErr(sm))
    ELSE LET r == IAddSeq(s, tg, sm)
         IN  IF IsErr(r.exc) THEN Raised(r.heap, r.exc)
             ELSE Returned(r.heap, IF retOwn THEN r.heap.d_out[n] ELSE None, sm)

\* the tail shared by the operator nodes' forward methods, for a computed o
ForwardTail(s, n, o) ==
    IF IsErr(o) THEN Raised(s, o)
    ELSE Returned([s EXCEPT !.out[n] = o, !.d_out[n] = NpZeros(o)], o, <<>>)

(* class ValueNode *)

\* variant of ValueNode_forward: d_out is created once and not reset after
ValueNode_forward_noreset(s, n) ==
    LET z == NpZeros(s.out[n])
    IN  IF IsErr(z) THEN Raised(s, z)
        ELSE IF IsArr(s.d_out[n]) THEN Returned(s, s.out[n], <<>>)
        ELSE Returned([s EXCEPT !.d_out[n] = z], s.out[n], <<>>)

ValueNode_forward(s, n) ==
    LET z == NpZeros(s.out[n])
    IN  IF IsErr(z) THEN Raised(s, z)
        ELSE Returned([s EXCEPT !.d_out[n] = z], s.out[n], <<>>)

ValueNode_backward(s, n) == Returned(s, None, <<>>)

ValueNode_get_predecessors(n) == <<>>

(* class VectorScalarAffineNode *)

VectorScalarAffine_out(x, w, b) == EW(NpDot(x, w), b, Add)

VectorScalarAffineNode_forward(s, n) ==
    LET a == nodes[n].args
    IN  ForwardTail(s, n, VectorScalarAffine_out(Attr(s.out[a[1]]), Attr(s.out[a[2]]), Attr(s.out[a[3]])))

\* variant of VectorScalarAffineNode_backward: x and w exchanged
VectorScalarAffineNode_backward_swapped(s, n) ==
    LET a == nodes[n].args
        d_x == EW(s.d_out[n], Attr(s.out[a[1]]), Mul)
        d_w == EW(s.d_out[n], Attr(s.out[a[2]]), Mul)
        d_b == s.d_out[n]
    IN  BackwardBody(s, a, <<d_x, d_w, d_b>>, FALSE, n)

VectorScalarAffineNode_backward(s, n) ==
    LET a == nodes[n].args
        d_x == EW(s.d_out[n], Attr(s.out[a[2]]), Mul)
        d_w == EW(s.d_out[n], Attr(s.out[a[1]]), Mul)
        d_b == s.d_out[n]
    IN  BackwardBody(s, a, <<d_x, d_w, d_b>>, FALSE, n)

VectorScalarAffineNode_get_predecessors(n) ==
    [i \in 1..3 |-> [isNode |-> TRUE, val |-> nodes[n].args[i]]]

(* class SquaredL2DistanceNode *)

SquaredL2Distance_out(a, b) == NpSum(Square(EW(a, b, Sub)))

SquaredL2DistanceNode_forward(s, n) ==
    LET a == nodes[n].args
        amb == EW(Attr(s.out[a[1]]), Attr(s.out[a[2]]), Sub)
    IN  IF IsErr(amb) THEN Raised(s, amb)
        ELSE ForwardTail([s EXCEPT !.a_minus_b[n] = amb], n, NpSum(Square(amb)))

\* variant of SquaredL2DistanceNode_backward: a.d_out = d_a; b.d_out = d_b
SquaredL2DistanceNode_backward_assign(s, n) ==
    LET a == nodes[n].args
        d_a == EW(EW(s.d_out[n], Scalar(2), Mul), s.a_minus_b[n], Mul)
        d_b == EW(EW(Neg(s.d_out[n]), Scalar(2), Mul), s.a_minus_b[n], Mul)
    IN  IF IsErr(FirstErr(<<d_a, d_b>>)) THEN Raised(s, FirstErr(<<d_a, d_b>>))
        ELSE LET s1 == [s EXCEPT !.d_out[a[1]] = d_a]
                 s2 == [s1 EXCEPT !.d_out[a[2]] = d_b]
             IN  Returned(s2, s2.d_out[n], <<d_a, d_b>>)

SquaredL2DistanceNode_backward(s, n) ==
    LET a == nodes[n].args
        d_a == EW(EW(s.d_out[n], Scalar(2), Mul), s.a_minus_b[n], Mul)
        d_b == EW(EW(Neg(s.d_out[n]), Scalar(2), Mul), s.a_minus_b[n], Mul)
    IN  BackwardBody(s, a, <<d_a, d_b>>, TRUE, n)

SquaredL2DistanceNode_get_predecessors(n) ==
    [i \in 1..2 |-> [isNode |-> TRUE, val |-> nodes[n].args[i]]]

(* class L2NormPenaltyNode *)

L2NormPenalty_out(l2_reg, w) == NpSum(Square(w))

L2NormPenaltyNode_forward(s, n) ==
    ForwardTail(s, n, L2NormPenalty_out(nodes[n].l2_reg, Attr(s.out[nodes[n].args[1]])))

L2NormPenaltyNode_backward(s, n) ==
    LET a == nodes[n].args
        d_w == EW(EW(s.d_out[n], Scalar(2), Mul), Attr(s.out[a[1]]), Mul)
    IN  BackwardBody(s, a, <<d_w>>, TRUE, n)

L2NormPenaltyNode_get_predecessors(n) ==
    << [isNode |-> TRUE, val |-> nodes[n].args[1]],
       [isNode |-> FALSE, val |-> nodes[n].l2_reg] >>

(* class SumNode *)

\* variant of Sum_out: vectors of different lengths are added up to the
\* shorter length
Sum_out_truncate(a, b) ==
    IF IsArr(a) /\ IsArr(b) /\ a.dim = 1 /\ b.dim = 1 /\ Len(a.v) # Len(b.v)
    THEN LET m == IF Len(a.v) < Len(b.v) THEN Len(a.v) ELSE Len(b.v)
         IN  Vec([i \in 1..m |-> a.v[i] + b.v[i]])
    ELSE EW(a, b, Add)

Sum_out(a, b) == EW(a, b, Add)

SumNode_forward(s, n) ==
    LET a == nodes[n].args
    IN  ForwardTail(s, n, Sum_out(Attr(s.out[a[1]]), Attr(s.out[a[2]])))

\* variant of SumNode_backward: returns at once when d_out is None
SumNode_backward_silent(s, n) ==
    LET a == nodes[n].args
        d_a == s.d_out[n]
        d_b == s.d_out[n]
    IN  IF s.d_out[n] = None THEN Returned(s, None, <<>>)
        ELSE BackwardBody(s, a, <<d_a, d_b>>, TRUE, n)

SumNode_backward(s, n) ==
    LET a == nodes[n].args
        d_a == s.d_out[n]
        d_b == s.d_out[n]
    IN  BackwardBody(s, a, <<d_a, d_b>>, TRUE, n)

SumNode_get_predecessors(n) ==
    [i \in 1..2 |-> [isNode |-> TRUE, val |-> nodes[n].args[i]]]

(* classes AffineNode and TanhNode: a docstring and nothing else *)

Methods(cls) ==
    IF cls \in {"AffineNode", "TanhNode"} THEN {}
    ELSE {"forward", "backward", "get_predecessors"}

(* n.forward(), n.backward(), n.get_predecessors() *)

Forward(s, n) ==
    LET c == nodes[n].cls
    IN  IF "forward" \notin Methods(c) THEN Raised(s, AttributeError)
        ELSE CASE c = "ValueNode" -> ValueNode_forward(s, n)
               [] c = "VectorScalarAffineNode" -> VectorScalarAffineNode_forward(s, n)
               [] c = "SquaredL2DistanceNode" -> SquaredL2DistanceNode_forward(s, n)
               [] c = "L2NormPenaltyNode" -> L2NormPenaltyNode_forward(s, n)
               [] c = "SumNode" -> SumNode_forward(s, n)

Backward(s, n) ==
    LET c == nodes[n].cls
    IN  IF "backward" \notin Methods(c) THEN Raised(s, AttributeError)
        ELSE CASE c = "ValueNode" -> ValueNode_backward(s, n)
               [] c = "VectorScalarAffineNode" -> VectorScalarAffineNode_backward(s, n)
               [] c = "SquaredL2DistanceNode" -> SquaredL2DistanceNode_backward(s, n)
               [] c = "L2NormPenaltyNode" -> L2NormPenaltyNode_backward(s, n)
               [] c = "SumNode" -> SumNode_backward(s, n)

GetPredecessors(s, n) ==
    LET c == nodes[n].cls
    IN  IF "get_predecessors" \notin Methods(c) THEN Raised(s, AttributeError)
        ELSE [Returned(s, None, <<>>) EXCEPT !.preds =
                CASE c = "ValueNode" -> ValueNode_get_predecessors(n)
                  [] c = "VectorScalarAffineNode" -> VectorScalarAffineNode_get_predecessors(n)
                  [] c = "SquaredL2DistanceNode" -> SquaredL2DistanceNode_get_predecessors(n)
                  [] c = "L2NormPenaltyNode" -> L2NormPenaltyNode_get_predecessors(n)
                  [] c = "SumNode" -> SumNode_get_predecessors(n)]

----------------------------------------------------------------------------
(* Construction.  A configuration is the list of objects a caller built,   *)
(* in construction order (an object's arguments are built before it), with *)
(* the shape of the value the caller gives each ValueNode: dims[n] is 1    *)
(* for a vector, 0 for a 0-dimensional array, -1 for an object that is no  *)
(* ValueNode.  All vectors of a configuration have one length from lens.   *)

ValueNode_init == [cls |-> "ValueNode", args |-> <<>>, l2_reg |-> 0]
VectorScalarAffineNode_init(x, w, b) ==
    [cls |-> "VectorScalarAffineNode", args |-> <<x, w, b>>, l2_reg |-> 0]
SquaredL2DistanceNode_init(a, b) ==
    [cls |-> "SquaredL2DistanceNode", args |-> <<a, b>>, l2_reg |-> 0]
L2NormPenaltyNode_init(l2_reg, w) ==
    [cls |-> "L2NormPenaltyNode", args |-> <<w>>, l2_reg |-> l2_reg]
SumNode_init(a, b) == [cls |-> "SumNode", args |-> <<a, b>>, l2_reg |-> 0]
\* AffineNode() and TanhNode(): objects without attributes
Bare(cls) == [cls |-> cls, args |-> <<>>, l2_reg |-> 0]

Vals == 1..MaxVal
Regs == 0..MaxReg

\* one leaf feeding a squared distance and a penalty, both feeding a sum
Diamond(l) ==
    [nodes |-> << ValueNode_init, ValueNode_init,
                  SquaredL2DistanceNode_init(1, 2),
                  L2NormPenaltyNode_init(l, 1),
                  SumNode_init(3, 4) >>,
     dims |-> <<1, 1, -1, -1, -1>>,
     lens |-> 1..MaxLen]

\* the affine prediction alone
AffineOnly ==
    [nodes |-> << ValueNode_init, ValueNode_init, ValueNode_init,
                  VectorScalarAffineNode_init(1, 2, 3) >>,
     dims |-> <<1, 1, 0, -1>>,
     lens |-> 1..MaxLen]

\* one node wired to both inputs of a sum, and to the affine node as well
Twice ==
    [nodes |-> << ValueNode_init, SumNode_init(1, 1), ValueNode_init,
                  VectorScalarAffineNode_init(2, 1, 3) >>,
     dims |-> <<1, -1, 0, -1>>,
     lens |-> 1..MaxLen]

\* ridge regression on one example: (x.w + b - y)^2 + penalty(w)
Ridge(l) ==
    [nodes |-> << ValueNode_init, ValueNode_init, ValueNode_init, ValueNode_init,
                  VectorScalarAffineNode_init(1, 2, 3),
                  SquaredL2DistanceNode_init(5, 4),
                  L2NormPenaltyNode_init(l, 2),
                  SumNode_init(6, 7) >>,
     dims |-> <<1, 1, 0, 0, -1, -1, -1, -1>>,
     lens |-> {1}]

WellShaped ==
    {Diamond(l) : l \in Regs} \cup {Ridge(l) : l \in Regs} \cup {AffineOnly, Twice}

\* small graphs for a caller that follows no order, among them objects of
\* the two classes without methods
Small ==
    { [nodes |-> <<ValueNode_init, SumNode_init(1, 1)>>,
       dims |-> <<1, -1>>, lens |-> 1..MaxLen],
      [nodes |-> <<ValueNode_init, ValueNode_init, SquaredL2DistanceNode_init(1, 2)>>,
       dims |-> <<1, 1, -1>>, lens |-> {1}],
      [nodes |-> <<ValueNode_init, ValueNode_init, VectorScalarAffineNode_init(1, 1, 2)>>,
       dims |-> <<1, 0, -1>>, lens |-> {1}],
      [nodes |-> <<Bare("AffineNode"), Bare("TanhNode")>>,
       dims |-> <<-1, -1>>, lens |-> {1}],
      [nodes |-> <<Bare("AffineNode"), ValueNode_init, SumNode_init(1, 2)>>,
       dims |-> <<-1, 1, -1>>, lens |-> {1}],
      [nodes |-> <<Bare("TanhNode"), ValueNode_init, SquaredL2DistanceNode_init(1, 2)>>,
       dims |-> <<-1, 1, -1>>, lens |-> {1}] }
    \cup { [nodes |-> <<ValueNode_init, L2NormPenaltyNode_init(l, 1)>>,
            dims |-> <<1, -1>>, lens |-> 1..MaxLen] : l \in Regs }

\* two leaves and one two-input operator
TwoInput ==
    { [nodes |-> <<ValueNode_init, ValueNode_init, SumNode_init(1, 2)>>],
      [nodes |-> <<ValueNode_init, ValueNode_init, SquaredL2DistanceNode_init(1, 2)>>] }

Fill(len, x) == [i \in 1..len |-> x]

\* values of any shape: 0-dimensional, or a vector of length 1 .. MaxShapeLen
AnyShape ==
    {Scalar(x) : x \in Vals} \cup
    {Vec(Fill(len, x)) : len \in 1..MaxShapeLen, x \in Vals}

\* out and d_out after construction: None, set by __init__; the classes
\* without __init__ leave the object without the attribute
NoneAll(g) == [n \in DOMAIN g |-> IF Methods(g[n].cls) = {} THEN NoAttr ELSE None]

\* a_minus_b after construction: only SquaredL2DistanceNode sets it
NoCache(g) ==
    [n \in DOMAIN g |-> IF g[n].cls = "SquaredL2DistanceNode" THEN None ELSE NoAttr]

Drv0(g, ph) ==
    [phase |-> ph, cycle |-> 1, calls |-> 0, fdone |-> {}, bdone |-> {},
     reordered |-> FALSE,
     log |-> [n \in DOMAIN g |-> <<>>],
     snap |-> [out |-> NoneAll(g), d_out |-> NoneAll(g)]]

Last0 == [op |-> "none", node |-> 0, exc |-> None, ret |-> None,
          preds |-> <<>>, summands |-> <<>>]

\* the objects of cfg are constructed and the caller assigns the leaves' out
Constructed(cfg, ph) ==
    \E len \in cfg.lens :
    \E vv \in [{n \in DOMAIN cfg.dims : cfg.dims[n] = 1} -> [1..len -> Vals]] :
    \E sv \in [{n \in DOMAIN cfg.dims : cfg.dims[n] = 0} -> Vals] :
        /\ nodes = cfg.nodes
        /\ out = [n \in DOMAIN cfg.nodes |->
                    IF cfg.dims[n] = 1 THEN Vec(vv[n])
                    ELSE IF cfg.dims[n] = 0 THEN Scalar(sv[n])
                    ELSE NoneAll(cfg.nodes)[n]]
        /\ d_out = NoneAll(cfg.nodes)
        /\ a_minus_b = NoCache(cfg.nodes)
        /\ last = Last0
        /\ drv = Drv0(cfg.nodes, ph)

Init == \E cfg \in WellShaped : Constructed(cfg, "forward")

InitCalls == \E cfg \in Small : Constructed(cfg, "calls")

InitShape ==
    \E cfg \in TwoInput : \E va \in AnyShape, vb \in AnyShape :
        /\ nodes = cfg.nodes
        /\ out = <<va, vb, None>>
        /\ d_out = NoneAll(cfg.nodes)
        /\ a_minus_b = NoCache(cfg.nodes)
        /\ last = Last0
        /\ drv = Drv0(cfg.nodes, "forward")

----------------------------------------------------------------------------
(* Calls.  A call of a method on object n changes the attributes as the    *)
(* method does and is recorded in last.                                    *)

Called(op, n, r) ==
    /\ out' = r.heap.out
    /\ d_out' = r.heap.d_out
    /\ a_minus_b' = r.heap.a_minus_b
    /\ last' = [op |-> op, node |-> n, exc |-> r.exc, ret |-> r.ret,
                preds |-> r.preds, summands |-> r.summands]
    /\ UNCHANGED nodes

(* A caller that follows no order. *)

CallForward(n) ==
    /\ drv.phase = "calls"
    /\ drv.calls < MaxCalls
    /\ LET r == Forward(Heap, n)
       IN  /\ Called("forward", n, r)
           /\ drv' = [drv EXCEPT !.calls = @ + 1,
                                 !.fdone = IF IsErr(r.exc) THEN @ ELSE @ \cup {n}]

CallBackward(n) ==
    /\ drv.phase = "calls"
    /\ drv.calls < MaxCalls
    /\ Called("backward", n, Backward(Heap, n))
    /\ drv' = [drv EXCEPT !.calls = @ + 1]

CallGetPredecessors(n) ==
    /\ drv.phase = "calls"
    /\ drv.calls < MaxCalls
    /\ Called("get_predecessors", n, GetPredecessors(Heap, n))
    /\ drv' = [drv EXCEPT !.calls = @ + 1]

\* the caller starts another cycle: no forward has run in it yet
BeginCycle ==
    /\ drv.phase = "calls"
    /\ drv.cycle < MaxCycles
    /\ drv' = [drv EXCEPT !.cycle = @ + 1, !.fdone = {}]
    /\ last' = [Last0 EXCEPT !.op = "begin"]
    /\ UNCHANGED <<nodes, out, d_out, a_minus_b>>

(* The graph driver: forward on every node, predecessors first; then the   *)
(* output's d_out is set to 1; then backward on every node, successors     *)
(* first.  A call that raises aborts the cycle.                            *)

\* drv.log[n] holds the summands n's backward computed in this cycle;
\* drv.reordered tells that some call of this cycle was not made in
\* construction order (forward) or its reverse (backward)
Preds(n) == {nodes[n].args[i] : i \in DOMAIN nodes[n].args}
Succs(n) == {c \in Ids : n \in Preds(c)}
Output == Len(nodes)

DriverForward(n) ==
    /\ drv.phase = "forward"
    /\ n \notin drv.fdone
    /\ Preds(n) \subseteq drv.fdone
    /\ LET r == Forward(Heap, n)
       IN  /\ Called("forward", n, r)
           /\ drv' = IF IsErr(r.exc) THEN [drv EXCEPT !.phase = "aborted"]
                     ELSE [drv EXCEPT !.fdone = @ \cup {n},
                                      !.reordered = @ \/ \E m \in Ids \ drv.fdone : m < n]

DriverSeed ==
    /\ drv.phase = "forward"
    /\ drv.fdone = Ids
    /\ IF out[Output].dim = 0
       THEN /\ d_out' = [d_out EXCEPT ![Output] = Scalar(1)]
            /\ drv' = [drv EXCEPT !.phase = "backward"]
       ELSE /\ d_out' = d_out
            /\ drv' = [drv EXCEPT !.phase = "aborted"]
    /\ last' = [Last0 EXCEPT !.op = "seed", !.node = Output]
    /\ UNCHANGED <<nodes, out, a_minus_b>>

DriverBackward(n) ==
    /\ drv.phase = "backward"
    /\ n \notin drv.bdone
    /\ Succs(n) \subseteq drv.bdone
    /\ LET r == Backward(Heap, n)
       IN  /\ Called("backward", n, r)
           /\ drv' = IF IsErr(r.exc) THEN [drv EXCEPT !.phase = "aborted"]
                     ELSE [drv EXCEPT !.bdone = @ \cup {n}, !.log[n] = r.summands,
                                      !.reordered = @ \/ \E m \in Ids \ drv.bdone : m > n]

CycleDone == drv.phase = "backward" /\ drv.bdone = Ids

\* a second cycle on the same graph, the leaves' values unchanged
DriverNextCycle ==
    /\ CycleDone
    /\ drv.cycle < MaxCycles
    /\ drv' = [drv EXCEPT !.phase = "forward", !.cycle = @ + 1,
                          !.fdone = {}, !.bdone = {}, !.reordered = FALSE,
                          !.log = [n \in Ids |-> <<>>],
                          !.snap = [out |-> out, d_out |-> d_out]]
    /\ last' = [Last0 EXCEPT !.op = "begin"]
    /\ UNCHANGED <<nodes, out, d_out, a_minus_b>>

DriverStep ==
    \/ \E n \in Ids : DriverForward(n)
    \/ DriverSeed
    \/ \E n \in Ids : DriverBackward(n)
    \/ DriverNextCycle

Next == DriverStep

Spec == Init /\ [][Next]_vars

SpecShape == InitShape /\ [][Next]_vars

NextCalls ==
    \/ \E n \in Ids : CallForward(n)
    \/ \E n \in Ids : CallBackward(n)
    \/ \E n \in Ids : CallGetPredecessors(n)
    \/ BeginCycle

SpecCalls == InitCalls /\ [][NextCalls]_vars

----------------------------------------------------------------------------
(* Derivatives, from the outputs the forward methods compute.  Every       *)
(* forward formula is a polynomial of degree at most 2 in each entry of    *)
(* each input, so the central difference with step 1 is the derivative.    *)

Ins(c) == [m \in DOMAIN nodes[c].args |-> out[nodes[c].args[m]]]

LocalOut(c, ins) ==
    LET k == nodes[c].cls
    IN  CASE k = "VectorScalarAffineNode" -> VectorScalarAffine_out(ins[1], ins[2], ins[3])
          [] k = "SquaredL2DistanceNode" -> SquaredL2Distance_out(ins[1], ins[2])
          [] k = "L2NormPenaltyNode" -> L2NormPenalty_out(nodes[c].l2_reg, ins[1])
          [] k = "SumNode" -> Sum_out(ins[1], ins[2])

Perturb(ins, i, j, e) == [ins EXCEPT ![i].v[j] = @ + e]

\* d (entry k of c's output) / d (entry j of c's i-th input)
Partial(c, i, j, k) ==
    (LocalOut(c, Perturb(Ins(c), i, j, 1)).v[k]
       - LocalOut(c, Perturb(Ins(c), i, j, -1)).v[k]) \div 2

\* d Output / d (n's output), summed over all paths from n to Output
RECURSIVE Grad(_)
Grad(n) ==
    IF n = Output THEN Scalar(1)
    ELSE [dim |-> out[n].dim,
          v |-> [j \in 1..Len(out[n].v) |->
                  SeqSum([c \in 1..Len(nodes) |->
                    SeqSum([i \in DOMAIN nodes[c].args |->
                      IF nodes[c].args[i] # n THEN 0
                      ELSE SeqSum([k \in 1..Len(out[c].v) |->
                             Grad(c).v[k] * Partial(c, i, j, k)])])])]]

\* C1: after a cycle (forward on every node, predecessors first; the
\* output's d_out set to 1; backward on every node, successors first) every
\* node's d_out is the derivative of the output with respect to the node's
\* out, summed over all paths from the node to the output.
C1_GradientOfOutput ==
    CycleDone => \A n \in Ids : d_out[n] = Grad(n)

\* a cycle has ended on the ridge graph, where w reaches the output on two
\* paths and its gradient is not zero
C1_Witness ==
    /\ CycleDone
    /\ Len(nodes) = 8
    /\ d_out[2] = Grad(2)
    /\ d_out[2].v[1] > 2
    /\ d_out[1] # d_out[2]

\* the summands the backward calls of this cycle computed for node n
LoggedFor(n) ==
    [dim |-> out[n].dim,
     v |-> [j \in 1..Len(out[n].v) |->
             SeqSum([c \in 1..Len(nodes) |->
               SeqSum([i \in DOMAIN nodes[c].args |->
                 IF nodes[c].args[i] # n \/ drv.log[c] = <<>> THEN 0
                 ELSE LET sm == drv.log[c][i]
                      IN  sm.v[IF Len(sm.v) = 1 THEN 1 ELSE j]])])]]

\* the node arguments, over all nodes, that are n
Uses(n) ==
    {<<c, i>> \in Ids \X (1..3) : i \in DOMAIN nodes[c].args /\ nodes[c].args[i] = n}

\* C6: backward contributions are added, never overwritten: after a cycle
\* the d_out of a node that feeds other nodes is the sum of the summands its
\* consumers computed for it (of both, when it has two consumers or is
\* wired to both inputs of one).
C6_ContributionsAdded ==
    CycleDone => \A n \in Ids : n # Output => d_out[n] = LoggedFor(n)

\* a cycle has ended on the diamond graph: the leaf's d_out is the sum of
\* two summands, neither of them zero
C6_Witness ==
    /\ CycleDone
    /\ Len(nodes) = 5
    /\ Cardinality(Uses(1)) = 2
    /\ drv.log[3][1].v[1] # 0
    /\ drv.log[4][1].v[1] # 0
    /\ d_out[1].v[1] = drv.log[3][1].v[1] + drv.log[4][1].v[1]

\* the cycle run in construction order: forward on 1, 2, ..., the seed,
\* backward on ..., 2, 1
RECURSIVE ForwardUpTo(_, _)
ForwardUpTo(s, n) ==
    IF n = 0 THEN s
    ELSE LET p == ForwardUpTo(s, n - 1)
         IN  IF n \in DOMAIN p.out THEN Forward(p, n).heap ELSE p

RECURSIVE BackwardDownTo(_, _)
BackwardDownTo(s, n) ==
    IF n > Len(nodes) THEN s
    ELSE LET p == BackwardDownTo(s, n + 1)
         IN  IF n \in DOMAIN p.d_out THEN Backward(p, n).heap ELSE p

Fresh ==
    [out |-> [n \in Ids |-> IF nodes[n].cls = "ValueNode" THEN out[n] ELSE None],
     d_out |-> NoneAll(nodes),
     a_minus_b |-> NoCache(nodes)]

InOrder ==
    LET f == ForwardUpTo(Fresh, Len(nodes))
    IN  BackwardDownTo([f EXCEPT !.d_out[Output] = Scalar(1)], 1)

\* C7: the result of a cycle does not depend on the order chosen: whatever
\* order the forward calls were made in (predecessors first), every out is
\* the one the construction order gives, and whatever order the backward
\* calls were made in (successors first), so is every d_out.
C7_OrderIndependent ==
    /\ (drv.phase = "forward" /\ drv.fdone = Ids) => out = InOrder.out
    /\ CycleDone => out = InOrder.out /\ d_out = InOrder.d_out

\* a cycle has ended whose calls were not made in construction order, on a
\* graph where a node has two consumers
C7_Witness ==
    /\ CycleDone
    /\ drv.reordered
    /\ \E n \in Ids : Cardinality(Succs(n)) = 2 /\ d_out[n].v[1] # 0

\* C8: a second cycle with the leaves unchanged gives the same out and the
\* same d_out on every node as the first.
C8_SecondCycleSame ==
    (CycleDone /\ drv.cycle > 1) => out = drv.snap.out /\ d_out = drv.snap.d_out

\* a second cycle has ended, with a leaf whose d_out is not zero
C8_Witness ==
    /\ CycleDone
    /\ drv.cycle = 2
    /\ d_out = drv.snap.d_out
    /\ d_out[1].v[1] # 0

----------------------------------------------------------------------------

SumSquares(w) == SeqSum([i \in 1..Len(w.v) |-> w.v[i] * w.v[i]])

\* C2: forward on an L2NormPenalty node built with (l2_reg, w) sets out to
\* l2_reg times the sum of the squares of the entries of w.out.
C2_ForwardPenalty ==
    (/\ last.op = "forward"
     /\ nodes[last.node].cls = "L2NormPenaltyNode"
     /\ ~IsErr(last.exc))
    => LET n == last.node
       IN  out[n] = Scalar(nodes[n].l2_reg * SumSquares(out[nodes[n].args[1]]))

\* C3: backward on an L2NormPenalty node built with (l2_reg, w) adds
\* d_out * 2 * l2_reg * w.out to w.d_out, entry by entry.
C3_BackwardPenalty ==
    [][(/\ last'.op = "backward"
        /\ nodes[last'.node].cls = "L2NormPenaltyNode"
        /\ ~IsErr(last'.exc))
       => LET n == last'.node
              w == nodes[n].args[1]
          IN  d_out'[w] =
                [dim |-> 1,
                 v |-> [j \in 1..Len(out[w].v) |->
                         d_out[w].v[j] + d_out[n].v[1] * 2 * nodes[n].l2_reg * out[w].v[j]]]
      ]_vars

\* C4: get_predecessors returns only nodes; the list an L2NormPenalty node
\* returns does not contain the scalar l2_reg.
C4_PredecessorsAreNodes ==
    (last.op = "get_predecessors" /\ ~IsErr(last.exc))
    => \A i \in DOMAIN last.preds : last.preds[i].isNode

\* C5: every node class, AffineNode and TanhNode included, offers forward,
\* backward and get_predecessors: a call of one of them never ends for want
\* of the method.
C5_MethodsOffered ==
    (/\ last.op \in {"forward", "backward", "get_predecessors"}
     /\ nodes[last.node].cls \in {"AffineNode", "TanhNode"})
    => last.exc # AttributeError

OperatorClasses ==
    {"VectorScalarAffineNode", "SquaredL2DistanceNode", "L2NormPenaltyNode", "SumNode"}

\* C9 as stated: backward on an operator node whose forward has not run in
\* the current cycle ends in an error, also when the node holds out and
\* d_out from an earlier cycle.
C9_StaleBackwardRaises ==
    (/\ last.op = "backward"
     /\ nodes[last.node].cls \in OperatorClasses
     /\ last.node \notin drv.fdone)
    => IsErr(last.exc)

\* C9 as amended: backward on an operator node whose forward has never run
\* (its d_out is still None) ends in an error and changes no d_out.  The
\* error is a TypeError, or an AttributeError when an input is an object
\* without d_out.
C9_NeverForwardedRaises ==
    [][(/\ last'.op = "backward"
        /\ nodes[last'.node].cls \in OperatorClasses
        /\ d_out[last'.node] = None)
       => (/\ last'.exc \in {TypeError, AttributeError}
           /\ last'.exc = AttributeError
                => \E p \in Preds(last'.node) : d_out[p] = NoAttr \/ out[p] = NoAttr
           /\ d_out' = d_out)
      ]_vars

\* backward was called on an operator node that never ran forward, while
\* its input already had a d_out to add to, and raised
C9_Witness ==
    /\ last.op = "backward"
    /\ nodes[last.node].cls \in OperatorClasses
    /\ d_out[last.node] = None
    /\ \E p \in Preds(last.node) : IsArr(d_out[p])
    /\ last.exc = TypeError

Shape(t) == <<t.dim, Len(t.v)>>

\* C10 as stated: forward on a two-input operator node whose inputs have
\* different shapes ends in an error and does not assign out.
C10_MismatchRaises ==
    (/\ last.op = "forward"
     /\ nodes[last.node].cls \in {"SumNode", "SquaredL2DistanceNode"}
     /\ Shape(out[1]) # Shape(out[2]))
    => (IsErr(last.exc) /\ out[last.node] = None)

\* C10 as amended: forward on a two-input operator node whose inputs are
\* vectors of different lengths, both longer than 1, ends in an error and
\* does not assign out; an input that is 0-dimensional or of length 1 is
\* broadcast to the other's shape and forward ends without error.
C10_MismatchRaisesUnlessBroadcast ==
    (/\ last.op = "forward"
     /\ nodes[last.node].cls \in {"SumNode", "SquaredL2DistanceNode"}
     /\ Shape(out[1]) # Shape(out[2]))
    => IF Len(out[1].v) > 1 /\ Len(out[2].v) > 1
       THEN last.exc = ValueError /\ out[last.node] = None
       ELSE ~IsErr(last.exc) /\ IsArr(out[last.node]) /\ out[last.node] = last.ret

\* forward was called on a two-input node whose inputs are vectors of
\* lengths 2 and 3, and raised
C10_Witness ==
    /\ last.op = "forward"
    /\ nodes[last.node].cls \in {"SumNode", "SquaredL2DistanceNode"}
    /\ Shape(out[1]) = <<1, 2>>
    /\ Shape(out[2]) = <<1, 3>>
    /\ last.exc = ValueError
    /\ out[last.node] = None

====
